---- MODULE Spec2Model ----
(***************************************************************************)
(* Model of xo_otm_identify/preproc.py (class PreProcessor).               *)
(*                                                                         *)
(* PreProcessor.run compiles the two carriers' L1p files into point rows   *)
(* and one polyline per orbit file (_compile_shp), scans every orbit of    *)
(* carrier 1 against the time-filtered orbits of carrier 2 (_identify),    *)
(* and exports the matches (_export_shp).                                  *)
(*                                                                         *)
(* Positions (pt_idx, fidx, idx1, idx2) are 0-based as in the Python code; *)
(* a TLA+ sequence s is read at position p as s[p + 1].                    *)
(*                                                                         *)
(* shapely is a library outside the repository: the geometry returned by   *)
(* line1.intersection(...) and the truth value of pt.intersects(...) are   *)
(* inputs of the pair step, drawn from MatchGeoms and InBufferSets.        *)
(* A geometry is the record [type, empty]; the type of an empty            *)
(* intersection depends on the installed shapely/GEOS (GEOMETRYCOLLECTION  *)
(* EMPTY or LINESTRING EMPTY), so both are drawn.                          *)
(* Timestamps are whole seconds; means and hour quotients are exact        *)
(* fractions [num, den]; the xo_dt / otm_dt column is held in thousandths  *)
(* of an hour (the unit np.round(.., 3) rounds to).                        *)
(***************************************************************************)
EXTENDS Integers, Sequences, FiniteSets, TLC

VARIABLES
    cfg,          \* self.cfg: aoi, matchtype, delta_t
    files1,       \* files_carrier1 with their netCDF content
    files2,       \* files_carrier2 with their netCDF content
    gdf1,         \* carrier1_gdfdict  {'pts', 'lin'}
    gdf2,         \* carrier2_gdfdict  {'pts', 'lin'}
    pc,           \* position of run()
    idx1,         \* outer loop position in LINES1
    LINES_IDX,    \* time-dependent subset of carrier 2 orbits for idx1
    k,            \* inner loop position in LINES_IDX
    attributes,   \* _identify: attributes
    geometries,   \* _identify: geometries
    MATCH,        \* intersection geometry of the pair scanned last
    inbuf1,       \* positions of line 1 whose point intersects match_buffered
    inbuf2,       \* positions of line 2 whose point intersects match_buffered
    pim1,         \* line1_points_in_match of the pair scanned last
    pim2,         \* line2_points_in_match of the pair scanned last
    ATTRS,        \* ATTRS of the pair scanned last
    called,       \* synthesizer called for the pair scanned last
    warned,       \* logger.warning emitted for the pair scanned last
    log_critical, \* a logger.critical message was emitted
    exc,          \* exception that left run()
    exit_code,    \* process exit status once the process has ended
    exported,     \* id_gdf.to_file(...) was called
    visited,      \* pairs <<id1, id2>> reached by the inner loop, in order
    intersected   \* pairs <<id1, id2>> passed to _identify_intersection

vars == <<cfg, files1, files2, gdf1, gdf2, pc, idx1, LINES_IDX, k,
          attributes, geometries, MATCH, inbuf1, inbuf2, pim1, pim2, ATTRS,
          called, warned, log_critical, exc, exit_code, exported, visited,
          intersected>>

-----------------------------------------------------------------------------
(* Bounds of the model *)

ShortLen == 3       \* eligible samples of a short orbit
LongLen == 51       \* eligible samples of a long orbit
MaxDeltaT == 1      \* largest configured delta_t [hours]

(* Program constants *)

MinPolylinePoints == 2    \* len(x)>=2
MinOTMPoints == 50        \* len(...)>50
SecondsPerHour == 3600    \* total_seconds()/(3600), pd.Timedelta(hours=1)
RoundDecimals == 1000     \* np.round(abs_delta_hh,3)

None == "None"

\* ATTRS = None / return None: a record that equals no ATTRS tuple
NoAttrs == [none |-> TRUE]

-----------------------------------------------------------------------------
(* Generic helpers *)

Abs(x) == IF x < 0 THEN -x ELSE x

Iloc(s, p) == s[p + 1]

RECURSIVE SeqSum(_)
SeqSum(s) == IF s = <<>> THEN 0 ELSE Head(s) + SeqSum(Tail(s))

RECURSIVE Concat(_)
Concat(ss) == IF ss = <<>> THEN <<>> ELSE Head(ss) \o Concat(Tail(ss))

Min(S) == CHOOSE x \in S : \A y \in S : x <= y

RECURSIVE Sorted(_)
Sorted(S) == IF S = {} THEN <<>> ELSE <<Min(S)>> \o Sorted(S \ {Min(S)})

-----------------------------------------------------------------------------
(* Exact fractions: the float arithmetic of pandas on whole-second inputs *)

Frac(n, d) == [num |-> n, den |-> d]

FracSub(a, b) == Frac(a.num * b.den - b.num * a.den, a.den * b.den)

FracAbs(a) == Frac(Abs(a.num), a.den)

\* a / b for a whole number b > 0
FracDivInt(a, b) == Frac(a.num, a.den * b)

\* a <= n for a whole number n
FracLeqInt(a, n) == a.num <= n * a.den

\* numpy rint: round num/den (num >= 0, den > 0) half to even
RoundHalfEven(num, den) ==
    LET q == num \div den
        r == num % den
    IN  IF 2 * r < den THEN q
        ELSE IF 2 * r > den THEN q + 1
        ELSE IF q % 2 = 0 THEN q ELSE q + 1

-----------------------------------------------------------------------------
(* Input: the L1p files of one carrier.  A file holds the raw timestamp    *)
(* array tmp and the index array idx2pick that the AOI / surface-type /    *)
(* coast-distance selection leaves (np.where: strictly increasing).        *)

RawFile(id, n, t0, picks) ==
    [id |-> id, tmp |-> [p \in 1..n |-> t0 + p - 1], idx2pick |-> picks]

\* no eligible sample
EmptyFile(id, t0) == RawFile(id, 1, t0, <<>>)

\* one eligible sample (the second raw sample)
SingleFile(id, t0) == RawFile(id, 2, t0, <<1>>)

\* ShortLen eligible samples out of ShortLen + 1: the last but one is dropped
ShortFile(id, t0) ==
    RawFile(id, ShortLen + 1, t0,
            [i \in 1..ShortLen |-> IF i < ShortLen THEN i - 1 ELSE i])

\* LongLen eligible samples, all raw samples kept
LongFile(id, t0) == RawFile(id, LongLen, t0, [i \in 1..LongLen |-> i - 1])

\* os.listdir(path_carrier1): listing order is arbitrary
Files1Choices ==
    { <<ShortFile(1, 0)>>,
      <<SingleFile(1, 0), ShortFile(2, 0)>>,
      <<LongFile(2, 0), ShortFile(1, 0)>>,
      <<EmptyFile(1, 0), LongFile(2, 0)>> }

\* os.listdir(path_carrier2); carrier 2 flies off seconds after carrier 1
Files2Choices(off) ==
    { <<ShortFile(1, off)>>,
      <<ShortFile(1, off), SingleFile(2, off)>>,
      <<LongFile(2, off), ShortFile(1, off)>>,
      <<LongFile(1, off), EmptyFile(2, off)>> }

TimeOffsets == {0, SecondsPerHour, SecondsPerHour + 1}

AOIs == {"arc", "ant", "glb"}

MatchTypes == {"xo", "otm"}

\* attributes set by __init__; self.aoi is not among them
PreProcessorAttrs ==
    {"cfg", "year", "month", "path_carrier1", "path_carrier2",
     "files_carrier1", "files_carrier2"}

-----------------------------------------------------------------------------
(* _compile_shp *)

\* pd.DataFrame({'id': ncfile, 'time': tmp[idx2pick], ..., 'fidx': idx2pick[0]})
FileRows(f) ==
    [i \in 1..Len(f.idx2pick) |->
        [id |-> f.id, time |-> Iloc(f.tmp, f.idx2pick[i]), fidx |-> f.idx2pick[i]]]

\* pd.concat(xo_preproc, ignore_index=True)
ConcatRows(files) == Concat([i \in 1..Len(files) |-> FileRows(files[i])])

\* pts[pts['id'] == id]: the rows of one orbit, in row order
PointsOf(pts, id) == SelectSeq(pts, LAMBDA r : r.id = id)

\* groupby(['id']): the group keys, sorted
GroupIds(pts) == Sorted({pts[i].id : i \in 1..Len(pts)})

\* LineString(x.tolist()) if len(x)>=2 else None
MakeLine(n) == IF n >= MinPolylinePoints THEN "LineString" ELSE None

\* xo_gdf_dict['lin']: one row (id, geometry) per group
CompileLines(pts) ==
    LET ids == GroupIds(pts)
    IN  [i \in 1..Len(ids) |->
            [id |-> ids[i], geometry |-> MakeLine(Len(PointsOf(pts, ids[i])))]]

\* the aoi branches: "ok", or the exception that leaves the function
AoiBranch(aoi) ==
    IF aoi = "arc" \/ aoi = "ant" THEN "ok"
    ELSE IF "aoi" \in PreProcessorAttrs THEN "UnboundLocalError"
    ELSE "AttributeError"

\* logger.critical runs only once its f-string argument has been evaluated
AoiLogsCritical(aoi) ==
    /\ aoi # "arc"
    /\ aoi # "ant"
    /\ "aoi" \in PreProcessorAttrs

CompileShp(files) ==
    LET pts == ConcatRows(files)
    IN  [pts |-> pts, lin |-> CompileLines(pts)]

NoGdf == [pts |-> <<>>, lin |-> <<>>]

-----------------------------------------------------------------------------
(* _identify: temporal candidate filter *)

\* POINTS[['id','time']].groupby(['id'], as_index=False).mean(), as datetime
AvgTimes(pts) ==
    LET ids == GroupIds(pts)
    IN  [i \in 1..Len(ids) |->
            LET rows == PointsOf(pts, ids[i])
            IN  Frac(SeqSum([j \in 1..Len(rows) |-> rows[j].time]), Len(rows))]

\* (dt2_df - dt1_df.iloc[idx1]).abs() / pd.Timedelta(hours=1)
AbsDtdHh(dt2_df, t1) ==
    [j \in 1..Len(dt2_df) |->
        FracDivInt(FracAbs(FracSub(dt2_df[j], t1)), SecondsPerHour)]

\* mutant: < in place of <=
LinesIdx_Strict(abs_dtd_hh, delta_t) ==
    LET keep == {j \in 1..Len(abs_dtd_hh) :
                    abs_dtd_hh[j].num < delta_t * abs_dtd_hh[j].den}
        labels == Sorted(keep)
    IN  [i \in 1..Len(labels) |-> labels[i] - 1]

\* abs_dtd_hh[abs_dtd_hh <= self.cfg.delta_t].index
LinesIdx(abs_dtd_hh, delta_t) ==
    LET keep == {j \in 1..Len(abs_dtd_hh) : FracLeqInt(abs_dtd_hh[j], delta_t)}
        labels == Sorted(keep)
    IN  [i \in 1..Len(labels) |-> labels[i] - 1]

-----------------------------------------------------------------------------
(* _identify_intersection, _identify_points_in_match *)

Geom(type, empty) == [type |-> type, empty |-> empty]

\* what shapely can return for line1.intersection(...)
MatchGeoms ==
    { Geom("Point", FALSE), Geom("LineString", FALSE),
      Geom("MultiPoint", FALSE), Geom("MultiLineString", FALSE),
      Geom("GeometryCollection", TRUE), Geom("LineString", TRUE) }

\* the results the call can have for the configured match type
IdentifyIntersection(matchtype) ==
    IF matchtype = "xo" THEN MatchGeoms
    ELSE IF matchtype = "otm" THEN MatchGeoms
    ELSE {Geom("NoneType", TRUE)}

\* the position sets pt.intersects(match_buffered) can select among n points:
\* nothing intersects an empty geometry; otherwise all points, all but the
\* first, all but the second (the track leaves the buffer and comes back),
\* the first alone, or none
InBufferSets(n, match) ==
    IF match.empty THEN {{}}
    ELSE {0..(n - 1), 1..(n - 1), (0..(n - 1)) \ {1}, {0}, {}}

\* for pt_idx, pt in enumerate(...): if point_intersects: append(pt_idx)
RECURSIVE PointsLoop(_, _, _, _)
PointsLoop(pt_idx, n, inbuf, acc) ==
    IF pt_idx >= n THEN acc
    ELSE PointsLoop(pt_idx + 1, n, inbuf,
                    IF pt_idx \in inbuf THEN Append(acc, pt_idx) ELSE acc)

\* mutant: the enumeration starts at the second point
IdentifyPointsInMatch_FromSecond(line_points, inbuf) ==
    PointsLoop(1, Len(line_points), inbuf, <<>>)

IdentifyPointsInMatch(line_points, inbuf) ==
    PointsLoop(0, Len(line_points), inbuf, <<>>)

-----------------------------------------------------------------------------
(* _identify_XOs, _identify_OTMs *)

\* mutant: the midpoint of an even-length list is taken one position early
DtIdx_Early(points_in_match) == (Len(points_in_match) - 1) \div 2

\* int(len(line_points_in_match)/2)
DtIdx(points_in_match) == Len(points_in_match) \div 2

\* line_points['time'].iloc[line_points_in_match[dt_idx]]
MidTime(line_points, points_in_match) ==
    Iloc(line_points, Iloc(points_in_match, DtIdx(points_in_match))).time

\* np.round(abs(delta_dt_match.total_seconds()/(3600)), 3), in 1/1000 hour
AbsDeltaHh(t1, t2) == RoundHalfEven(Abs(t1 - t2) * RoundDecimals, SecondsPerHour)

\* the ATTRS tuple
MakeAttrs(line1_points, line2_points, p1, p2) ==
    [id1 |-> Iloc(line1_points, 0).id,
     id2 |-> Iloc(line2_points, 0).id,
     rng1_0 |-> Iloc(line1_points, Iloc(p1, 0)).fidx,
     rng1_1 |-> Iloc(line1_points, Iloc(p1, Len(p1) - 1)).fidx,
     rng2_0 |-> Iloc(line2_points, Iloc(p2, 0)).fidx,
     rng2_1 |-> Iloc(line2_points, Iloc(p2, Len(p2) - 1)).fidx,
     dt |-> AbsDeltaHh(MidTime(line1_points, p1), MidTime(line2_points, p2))]

\* len(line1_points_in_match)>0 and len(line2_points_in_match)>0
EnoughXO(p1, p2) == Len(p1) > 0 /\ Len(p2) > 0

\* mutant: >= 50 in place of > 50
EnoughOTM_AtLeast(p1, p2) == Len(p1) >= MinOTMPoints /\ Len(p2) >= MinOTMPoints

\* len(line1_points_in_match)>50 and len(line2_points_in_match)>50
EnoughOTM(p1, p2) == Len(p1) > MinOTMPoints /\ Len(p2) > MinOTMPoints

\* geometry2 = line1_points['geometry']; geometry2.iloc[line2_points_in_match]:
\* .iloc with a list raises IndexError on a position outside the series
Dist2xoRaises(line1_points, p2) == \E i \in 1..Len(p2) : p2[i] >= Len(line1_points)

\* result of _identify_XOs: the exception raised ("none": returns), ATTRS
IdentifyXOs(line1_points, line2_points, in1, in2) ==
    LET p1 == IdentifyPointsInMatch(line1_points, in1)
        p2 == IdentifyPointsInMatch(line2_points, in2)
    IN  IF EnoughXO(p1, p2)
        THEN IF Dist2xoRaises(line1_points, p2)
             THEN [raised |-> "IndexError", ATTRS |-> NoAttrs, p1 |-> p1, p2 |-> p2]
             ELSE [raised |-> "none",
                   ATTRS |-> MakeAttrs(line1_points, line2_points, p1, p2),
                   p1 |-> p1, p2 |-> p2]
        ELSE [raised |-> "none", ATTRS |-> NoAttrs, p1 |-> p1, p2 |-> p2]

\* result of _identify_OTMs
IdentifyOTMs(line1_points, line2_points, in1, in2) ==
    LET p1 == IdentifyPointsInMatch(line1_points, in1)
        p2 == IdentifyPointsInMatch(line2_points, in2)
    IN  IF EnoughOTM(p1, p2)
        THEN [raised |-> "none",
              ATTRS |-> MakeAttrs(line1_points, line2_points, p1, p2),
              p1 |-> p1, p2 |-> p2]
        ELSE [raised |-> "none", ATTRS |-> NoAttrs, p1 |-> p1, p2 |-> p2]

-----------------------------------------------------------------------------
(* _identify: the branches of the pair loop *)

\* mutant: 'and' in place of 'or'
SkipPair_Both(lin1, lin2) == lin1 = None /\ lin2 = None

\* if lin1 is None or lin2 is None: continue
SkipPair(lin1, lin2) == lin1 = None \/ lin2 = None

\* mutant: the runtime type of MATCH is not tested
IsXOMatch_AnyType(match, matchtype) == matchtype = "xo"

\* type(MATCH) is shapely.geometry.point.Point and matchtype == 'xo'
IsXOMatch(match, matchtype) == match.type = "Point" /\ matchtype = "xo"

\* type(MATCH) is shapely.geometry.linestring.LineString and matchtype == 'otm'
IsOTMMatch(match, matchtype) == match.type = "LineString" /\ matchtype = "otm"

\* sys.exit() without argument raises SystemExit(None): exit status 0
SysExitStatus == 0

\* an exception that nothing in run() catches ends the interpreter with 1
UncaughtStatus == 1

-----------------------------------------------------------------------------
(* State machine of PreProcessor.run *)

NoGeom == Geom(None, TRUE)

Init ==
    /\ cfg \in [aoi : AOIs, matchtype : MatchTypes, delta_t : 0..MaxDeltaT]
    /\ files1 \in Files1Choices
    /\ \E off \in TimeOffsets : files2 \in Files2Choices(off)
    /\ gdf1 = NoGdf
    /\ gdf2 = NoGdf
    /\ pc = "compile1"
    /\ idx1 = 0
    /\ LINES_IDX = <<>>
    /\ k = 0
    /\ attributes = <<>>
    /\ geometries = <<>>
    /\ MATCH = NoGeom
    /\ inbuf1 = {}
    /\ inbuf2 = {}
    /\ pim1 = <<>>
    /\ pim2 = <<>>
    /\ ATTRS = NoAttrs
    /\ called = "none"
    /\ warned = FALSE
    /\ log_critical = FALSE
    /\ exc = "none"
    /\ exit_code = <<>>
    /\ exported = FALSE
    /\ visited = <<>>
    /\ intersected = {}

scanVars == <<idx1, LINES_IDX, k, attributes, geometries, MATCH, inbuf1,
              inbuf2, pim1, pim2, ATTRS, called, warned, visited, intersected>>

\* run(): carrier1_gdfdict = self._compile_shp(path_carrier1, files_carrier1)
CompileShp1 ==
    /\ pc = "compile1"
    /\ IF Len(files1) > 0 /\ AoiBranch(cfg.aoi) # "ok"
       THEN /\ pc' = "crashed"
            /\ exc' = AoiBranch(cfg.aoi)
            /\ exit_code' = <<UncaughtStatus>>
            /\ log_critical' = AoiLogsCritical(cfg.aoi)
            /\ gdf1' = gdf1
       ELSE /\ pc' = "compile2"
            /\ gdf1' = CompileShp(files1)
            /\ UNCHANGED <<exc, exit_code, log_critical>>
    /\ UNCHANGED <<cfg, files1, files2, gdf2, exported>>
    /\ UNCHANGED scanVars

\* run(): carrier2_gdfdict = self._compile_shp(path_carrier2, files_carrier2)
CompileShp2 ==
    /\ pc = "compile2"
    /\ IF Len(files2) > 0 /\ AoiBranch(cfg.aoi) # "ok"
       THEN /\ pc' = "crashed"
            /\ exc' = AoiBranch(cfg.aoi)
            /\ exit_code' = <<UncaughtStatus>>
            /\ log_critical' = AoiLogsCritical(cfg.aoi)
            /\ gdf2' = gdf2
       ELSE /\ pc' = "identify"
            /\ gdf2' = CompileShp(files2)
            /\ UNCHANGED <<exc, exit_code, log_critical>>
    /\ UNCHANGED <<cfg, files1, files2, gdf1, exported>>
    /\ UNCHANGED scanVars

\* for idx1, xo_id1, lin1 in LINES1.itertuples(): ... LINES_IDX = ...
IdentifyOuter ==
    /\ pc = "identify"
    /\ idx1 < Len(gdf1.lin)
    /\ LINES_IDX' = LinesIdx(AbsDtdHh(AvgTimes(gdf2.pts),
                                      Iloc(AvgTimes(gdf1.pts), idx1)),
                             cfg.delta_t)
    /\ k' = 0
    /\ pc' = "pairs"
    /\ UNCHANGED <<cfg, files1, files2, gdf1, gdf2, idx1, attributes,
                   geometries, MATCH, inbuf1, inbuf2, pim1, pim2, ATTRS,
                   called, warned, log_critical, exc, exit_code, exported,
                   visited, intersected>>

\* the pair the inner loop stands at
Lin1 == Iloc(gdf1.lin, idx1)

Lin2 == Iloc(gdf2.lin, Iloc(LINES_IDX, k))

AtPair == pc = "pairs" /\ k < Len(LINES_IDX)

\* what every branch of the inner loop body leaves alone or steps
PairFrame ==
    /\ visited' = Append(visited, <<Lin1.id, Lin2.id>>)
    /\ UNCHANGED <<cfg, files1, files2, gdf1, gdf2, idx1, LINES_IDX,
                   log_critical, exported>>

\* if lin1 is None or lin2 is None: continue
PairSkip ==
    /\ AtPair
    /\ SkipPair(Lin1.geometry, Lin2.geometry)
    /\ k' = k + 1
    /\ MATCH' = NoGeom
    /\ inbuf1' = {}
    /\ inbuf2' = {}
    /\ pim1' = <<>>
    /\ pim2' = <<>>
    /\ ATTRS' = NoAttrs
    /\ called' = "none"
    /\ warned' = FALSE
    /\ PairFrame
    /\ UNCHANGED <<pc, exc, exit_code, attributes, geometries, intersected>>

\* the tail of the loop body, after ATTRS has been computed
PairEnd(match, res, which, warn) ==
    /\ MATCH' = match
    /\ pim1' = res.p1
    /\ pim2' = res.p2
    /\ ATTRS' = res.ATTRS
    /\ called' = which
    /\ warned' = warn
    /\ intersected' = intersected \cup {<<Lin1.id, Lin2.id>>}
    /\ IF res.raised # "none"
       THEN /\ pc' = "crashed"
            /\ exc' = res.raised
            /\ exit_code' = <<UncaughtStatus>>
            /\ UNCHANGED <<k, attributes, geometries>>
       ELSE /\ k' = k + 1
            /\ UNCHANGED <<pc, exc, exit_code>>
            /\ IF res.ATTRS # NoAttrs
               THEN /\ attributes' = Append(attributes, res.ATTRS)
                    /\ geometries' = Append(geometries, match)
               ELSE UNCHANGED <<attributes, geometries>>
    /\ PairFrame

\* MATCH is a Point under 'xo': ATTRS = self._identify_XOs(...)
PairXO ==
    /\ AtPair
    /\ ~SkipPair(Lin1.geometry, Lin2.geometry)
    /\ \E match \in IdentifyIntersection(cfg.matchtype) :
        /\ IsXOMatch(match, cfg.matchtype)
        /\ LET points_on_line1 == PointsOf(gdf1.pts, Lin1.id)
               points_on_line2 == PointsOf(gdf2.pts, Lin2.id)
           IN  \E in1 \in InBufferSets(Len(points_on_line1), match),
                  in2 \in InBufferSets(Len(points_on_line2), match) :
                   /\ inbuf1' = in1
                   /\ inbuf2' = in2
                   /\ PairEnd(match,
                              IdentifyXOs(points_on_line1, points_on_line2,
                                          in1, in2),
                              "xo", FALSE)

\* MATCH is a LineString under 'otm': ATTRS = self._identify_OTMs(...)
PairOTM ==
    /\ AtPair
    /\ ~SkipPair(Lin1.geometry, Lin2.geometry)
    /\ \E match \in IdentifyIntersection(cfg.matchtype) :
        /\ ~IsXOMatch(match, cfg.matchtype)
        /\ IsOTMMatch(match, cfg.matchtype)
        /\ LET points_on_line1 == PointsOf(gdf1.pts, Lin1.id)
               points_on_line2 == PointsOf(gdf2.pts, Lin2.id)
           IN  \E in1 \in InBufferSets(Len(points_on_line1), match),
                  in2 \in InBufferSets(Len(points_on_line2), match) :
                   /\ inbuf1' = in1
                   /\ inbuf2' = in2
                   /\ PairEnd(match,
                              IdentifyOTMs(points_on_line1, points_on_line2,
                                           in1, in2),
                              "otm", FALSE)

\* else: logger.warning('Unsupported intersect type: ...'); ATTRS = NoAttrs
PairUnsupported ==
    /\ AtPair
    /\ ~SkipPair(Lin1.geometry, Lin2.geometry)
    /\ \E match \in IdentifyIntersection(cfg.matchtype) :
        /\ ~IsXOMatch(match, cfg.matchtype)
        /\ ~IsOTMMatch(match, cfg.matchtype)
        /\ inbuf1' = {}
        /\ inbuf2' = {}
        /\ PairEnd(match,
                   [raised |-> "none", ATTRS |-> NoAttrs, p1 |-> <<>>, p2 |-> <<>>],
                   "none", TRUE)

\* the inner loop is exhausted: next orbit of carrier 1
NextLine1 ==
    /\ pc = "pairs"
    /\ k = Len(LINES_IDX)
    /\ idx1' = idx1 + 1
    /\ pc' = "identify"
    /\ UNCHANGED <<cfg, files1, files2, gdf1, gdf2, LINES_IDX, k, attributes,
                   geometries, MATCH, inbuf1, inbuf2, pim1, pim2, ATTRS,
                   called, warned, log_critical, exc, exit_code, exported,
                   visited, intersected>>

\* the outer loop is exhausted: return gpd.GeoDataFrame(attributes, ...)
IdentifyReturn ==
    /\ pc = "identify"
    /\ idx1 = Len(gdf1.lin)
    /\ pc' = "export"
    /\ UNCHANGED <<cfg, files1, files2, gdf1, gdf2, log_critical, exc,
                   exit_code, exported>>
    /\ UNCHANGED scanVars

\* _export_shp, len(id_gdf) > 0: id_gdf.to_file(OUTNAME); run() returns
ExportShpSave ==
    /\ pc = "export"
    /\ Len(attributes) > 0
    /\ exported' = TRUE
    /\ pc' = "done"
    /\ UNCHANGED <<cfg, files1, files2, gdf1, gdf2, log_critical, exc,
                   exit_code>>
    /\ UNCHANGED scanVars

\* _export_shp, else: logger.critical('No matches found to export!'); sys.exit()
ExportShpExit ==
    /\ pc = "export"
    /\ ~(Len(attributes) > 0)
    /\ log_critical' = TRUE
    /\ exc' = "SystemExit"
    /\ exit_code' = <<SysExitStatus>>
    /\ pc' = "exited"
    /\ UNCHANGED <<cfg, files1, files2, gdf1, gdf2, exported>>
    /\ UNCHANGED scanVars

Next ==
    \/ CompileShp1
    \/ CompileShp2
    \/ IdentifyOuter
    \/ PairSkip
    \/ PairXO
    \/ PairOTM
    \/ PairUnsupported
    \/ NextLine1
    \/ IdentifyReturn
    \/ ExportShpSave
    \/ ExportShpExit

Spec == Init /\ [][Next]_vars

-----------------------------------------------------------------------------
(* Vocabulary of the properties *)

\* the elements of a sequence
Range(s) == {s[i] : i \in 1..Len(s)}

\* the pair the inner loop scanned last
LastPair == visited[Len(visited)]

\* a pair has been scanned and the loop has not moved on to the next orbit
PairScanned == Len(visited) > 0 /\ pc \in {"pairs", "crashed"}

\* the samples of a track, by carrier and track id
Track1(id) == PointsOf(gdf1.pts, id)

Track2(id) == PointsOf(gdf2.pts, id)

\* classified intersection shape: none / point / line / other
Shape(g) ==
    IF g.empty THEN "none"
    ELSE IF g.type = "Point" THEN "point"
    ELSE IF g.type = "LineString" THEN "line"
    ELSE "other"

\* the shape a match of the configured type must have
ExpectedShape == IF cfg.matchtype = "xo" THEN "point" ELSE "line"

StrictlyIncreasing(s) == \A i \in 1..(Len(s) - 1) : s[i] < s[i + 1]

\* the track ids of the files with fewer than 2 eligible samples
FewSamples(files) ==
    {files[i].id : i \in {j \in 1..Len(files) : Len(files[j].idx2pick) < 2}}

\* sum of the sample timestamps of a track
TimeSum(track) == SeqSum([i \in 1..Len(track) |-> track[i].time])

\* |mean(a) - mean(b)| <= h hours, on the sums (no division)
MeansWithin(a, b, h) ==
    Abs(TimeSum(a) * Len(b) - TimeSum(b) * Len(a))
        <= h * 3600 * Len(a) * Len(b)

\* |mean(a) - mean(b)| = h hours
MeansApart(a, b, h) ==
    Abs(TimeSum(a) * Len(b) - TimeSum(b) * Len(a))
        = h * 3600 * Len(a) * Len(b)

\* the candidate pairs of the whole scan, A-outer / B-inner
RECURSIVE AllPairs(_, _)
AllPairs(i, j) ==
    IF i > Len(gdf1.lin) THEN <<>>
    ELSE IF j > Len(gdf2.lin) THEN AllPairs(i + 1, 1)
    ELSE (IF MeansWithin(Track1(gdf1.lin[i].id), Track2(gdf2.lin[j].id),
                         cfg.delta_t)
          THEN <<(<<gdf1.lin[i].id, gdf2.lin[j].id>>)>>
          ELSE <<>>) \o AllPairs(i, j + 1)

\* s is a subsequence of t
RECURSIVE IsSubSeq(_, _)
IsSubSeq(s, t) ==
    IF s = <<>> THEN TRUE
    ELSE IF t = <<>> THEN FALSE
    ELSE IF Head(s) = Head(t) THEN IsSubSeq(Tail(s), Tail(t))
    ELSE IsSubSeq(s, Tail(t))

RecordPairs == [i \in 1..Len(attributes) |-> <<attributes[i].id1, attributes[i].id2>>]

\* timestamp of the sample at the midpoint position floor(n/2) of the list
MidpointTime(track, list) == track[list[(Len(list) \div 2) + 1] + 1].time

-----------------------------------------------------------------------------
(* C1: every record appended by _identify carries a single point as its    *)
(* intersection geometry under match type xo and a line under otm; a pair  *)
(* whose classified intersection shape (none / point / line / other)       *)
(* differs from the configured match type leaves no record, a line-shaped  *)
(* intersection under xo included.                                         *)
C1_RecordShapeMatchesType ==
    /\ Len(geometries) = Len(attributes)
    /\ \A i \in 1..Len(geometries) : Shape(geometries[i]) = ExpectedShape
    /\ (PairScanned /\ Shape(MATCH) # ExpectedShape) =>
           /\ ATTRS = NoAttrs
           /\ \A i \in 1..Len(attributes) : RecordPairs[i] # LastPair

\* a record exists, and a line-shaped intersection under xo has just been
\* turned away
C1_Witness ==
    /\ cfg.matchtype = "xo"
    /\ Len(attributes) > 0
    /\ PairScanned
    /\ Shape(MATCH) = "line"
    /\ ATTRS = NoAttrs

(* C2: an emitted otm record has at least 51 attributed samples on each    *)
(* side, an emitted xo record at least 1 on each side; below the threshold *)
(* on either side the synthesizer returns no match without raising and     *)
(* nothing is appended.                                                    *)
C2_MinimumSamples ==
    /\ ATTRS # NoAttrs =>
           /\ Len(attributes) > 0
           /\ attributes[Len(attributes)] = ATTRS
           /\ cfg.matchtype = "otm" => Len(pim1) >= 51 /\ Len(pim2) >= 51
           /\ cfg.matchtype = "xo" => Len(pim1) >= 1 /\ Len(pim2) >= 1
    /\ \A i \in 1..Len(attributes) :
           cfg.matchtype = "otm" =>
               /\ Len(Track1(attributes[i].id1)) >= 51
               /\ Len(Track2(attributes[i].id2)) >= 51
    /\ (PairScanned /\ called = "otm" /\ (Len(pim1) < 51 \/ Len(pim2) < 51)) =>
           /\ ATTRS = NoAttrs
           /\ exc = "none"
           /\ \A i \in 1..Len(attributes) : RecordPairs[i] # LastPair
    /\ (PairScanned /\ called = "xo" /\ (Len(pim1) < 1 \/ Len(pim2) < 1)) =>
           /\ ATTRS = NoAttrs
           /\ exc = "none"
           /\ \A i \in 1..Len(attributes) : RecordPairs[i] # LastPair

\* an otm record emitted from attribution lists that just reach the threshold
C2_Witness ==
    /\ cfg.matchtype = "otm"
    /\ PairScanned
    /\ ATTRS # NoAttrs
    /\ Len(pim1) = MinOTMPoints + 1
    /\ Len(pim2) = MinOTMPoints + 1
    /\ Len(attributes) > 0

(* C3: a full run that ends with an empty match collection is reported    *)
(* to the caller as a hard failure with a non-zero termination status,     *)
(* never as a success; with a non-empty collection the run exports and     *)
(* terminates normally.                                                    *)
C3_EmptyResultIsFailure ==
    /\ (pc \in {"done", "exited"} /\ Len(attributes) = 0) =>
           /\ pc = "exited"
           /\ ~exported
           /\ exit_code # <<>>
           /\ exit_code[1] # 0
    /\ (pc \in {"done", "exited"} /\ Len(attributes) > 0) =>
           /\ pc = "done"
           /\ exported
           /\ exc = "none"

(* C4: track b of carrier 2 is in the candidate subset scanned for track a *)
(* of carrier 1 iff the absolute difference of their mean sample           *)
(* timestamps is <= delta_t hours; the relation is symmetric (a is a       *)
(* candidate for b under the same delta_t), and with delta_t = 0 a pair    *)
(* whose means differ is never a candidate.                                *)
C4_CandidateIffMeansWithin ==
    pc = "pairs" =>
        LET a == Track1(Lin1.id)
        IN  /\ \A j \in 0..(Len(gdf2.lin) - 1) :
                LET b == Track2(Iloc(gdf2.lin, j).id)
                    swapped == LinesIdx(AbsDtdHh(AvgTimes(gdf1.pts),
                                                 Iloc(AvgTimes(gdf2.pts), j)),
                                        cfg.delta_t)
                IN  /\ j \in Range(LINES_IDX) <=> MeansWithin(a, b, cfg.delta_t)
                    /\ j \in Range(LINES_IDX) <=> idx1 \in Range(swapped)
                    /\ (cfg.delta_t = 0 /\ ~MeansApart(a, b, 0)) =>
                           j \notin Range(LINES_IDX)
            /\ StrictlyIncreasing(LINES_IDX)
            /\ \A i \in 1..k :
                   /\ visited[Len(visited) - k + i][1] = Lin1.id
                   /\ visited[Len(visited) - k + i][2]
                          = Iloc(gdf2.lin, LINES_IDX[i]).id

\* an orbit exactly delta_t = 1 hour away is a candidate and has been scanned,
\* while another orbit of carrier 2 is not a candidate
C4_Witness ==
    /\ pc = "pairs"
    /\ cfg.delta_t = 1
    /\ k = Len(LINES_IDX)
    /\ Len(LINES_IDX) < Len(gdf2.lin)
    /\ \E j \in Range(LINES_IDX) :
           MeansApart(Track1(Lin1.id), Track2(Iloc(gdf2.lin, j).id), 1)

(* C5: in every emitted record time_delta_hours is the absolute difference *)
(* in hours between the timestamps of the A-sample at position floor(nA/2) *)
(* of A's attributed-sample list and of the B-sample at position           *)
(* floor(nB/2) of B's list; the midpoint is a valid position of the list   *)
(* and time_delta_hours >= 0.  Stated as claimed: the equality is exact.   *)
C5_ExactTimeDelta ==
    ATTRS # NoAttrs =>
        /\ (Len(pim1) \div 2) + 1 \in 1..Len(pim1)
        /\ (Len(pim2) \div 2) + 1 \in 1..Len(pim2)
        /\ ATTRS.dt >= 0
        /\ ATTRS.dt * 3600
               = 1000 * Abs(MidpointTime(Track1(ATTRS.id1), pim1)
                            - MidpointTime(Track2(ATTRS.id2), pim2))

(* C5 as amended: time_delta_hours is that absolute difference rounded to  *)
(* 3 decimals, hence within half a thousandth of an hour of it.            *)
C5_RoundedTimeDelta ==
    ATTRS # NoAttrs =>
        /\ (Len(pim1) \div 2) + 1 \in 1..Len(pim1)
        /\ (Len(pim2) \div 2) + 1 \in 1..Len(pim2)
        /\ ATTRS.dt >= 0
        /\ 2 * Abs(ATTRS.dt * 3600
                   - 1000 * Abs(MidpointTime(Track1(ATTRS.id1), pim1)
                                - MidpointTime(Track2(ATTRS.id2), pim2)))
               <= 3600

\* a record whose two lists differ in length and whose midpoint times are
\* a positive number of seconds apart that is no whole thousandth of an hour
C5_Witness ==
    /\ ATTRS # NoAttrs
    /\ Len(pim1) # Len(pim2)
    /\ ATTRS.dt > 0
    /\ ATTRS.dt * 3600
           # 1000 * Abs(MidpointTime(Track1(ATTRS.id1), pim1)
                        - MidpointTime(Track2(ATTRS.id2), pim2))

(* C6: a track with fewer than 2 eligible samples gets no polyline and    *)
(* contributes no candidate pair: it is never passed to the intersection   *)
(* step and its track id appears in no record, on side A or on side B.     *)
C6_FewSamplesExcluded ==
    /\ \A id \in FewSamples(files1) :
           /\ \A i \in 1..Len(gdf1.lin) :
                  gdf1.lin[i].id = id => gdf1.lin[i].geometry = None
           /\ \A p \in intersected : p[1] # id
           /\ \A i \in 1..Len(attributes) : attributes[i].id1 # id
    /\ \A id \in FewSamples(files2) :
           /\ \A i \in 1..Len(gdf2.lin) :
                  gdf2.lin[i].id = id => gdf2.lin[i].geometry = None
           /\ \A p \in intersected : p[2] # id
           /\ \A i \in 1..Len(attributes) : attributes[i].id2 # id

\* the scan has reached a pair with a one-sample track and the run has
\* exported records of other pairs
C6_Witness ==
    /\ pc = "done"
    /\ Len(attributes) > 0
    /\ \E i \in 1..Len(visited) :
           \/ visited[i][1] \in FewSamples(files1)
           \/ visited[i][2] \in FewSamples(files2)

(* C7: _identify_points_in_match returns exactly the positions of the      *)
(* track's samples that lie within the buffer of the match region, in      *)
(* strictly increasing native order; index_first and index_last of each    *)
(* side are the file_index of the first and of the last entry of that      *)
(* list, unsorted, so that samples between them may lie outside the        *)
(* buffer, and index_first <= index_last as file_index increases along the *)
(* track.                                                                  *)
C7_NativeOrderAttribution ==
    (PairScanned /\ called # "none") =>
        LET t1 == Track1(LastPair[1])
            t2 == Track2(LastPair[2])
        IN  /\ StrictlyIncreasing(pim1)
            /\ StrictlyIncreasing(pim2)
            /\ Range(pim1) = inbuf1 \cap (0..(Len(t1) - 1))
            /\ Range(pim2) = inbuf2 \cap (0..(Len(t2) - 1))
            /\ ATTRS # NoAttrs =>
                   /\ ATTRS.rng1_0 = t1[pim1[1] + 1].fidx
                   /\ ATTRS.rng1_1 = t1[pim1[Len(pim1)] + 1].fidx
                   /\ ATTRS.rng2_0 = t2[pim2[1] + 1].fidx
                   /\ ATTRS.rng2_1 = t2[pim2[Len(pim2)] + 1].fidx
                   /\ ATTRS.rng1_0 <= ATTRS.rng1_1
                   /\ ATTRS.rng2_0 <= ATTRS.rng2_1

\* a record whose side A index range spans a sample outside the buffer
C7_Witness ==
    /\ PairScanned
    /\ ATTRS # NoAttrs
    /\ \E p \in 0..(Len(Track1(LastPair[1])) - 1) :
           /\ p \notin inbuf1
           /\ pim1[1] < p
           /\ p < pim1[Len(pim1)]
           /\ ATTRS.rng1_0 < Track1(LastPair[1])[p + 1].fidx
           /\ Track1(LastPair[1])[p + 1].fidx < ATTRS.rng1_1

(* C8: with an AOI identifier that is neither arc nor ant the track        *)
(* builder logs a critical message and the run stops: no sample of any     *)
(* file is accepted, no matching is performed and nothing is exported.     *)
C8_UnknownAoiLoggedAndStopped ==
    (cfg.aoi \notin {"arc", "ant"} /\ pc # "compile1") =>
        /\ log_critical
        /\ pc = "crashed"
        /\ gdf1.pts = <<>>
        /\ gdf2.pts = <<>>
        /\ visited = <<>>
        /\ ~exported

(* C9: a candidate pair whose polylines have an empty intersection is      *)
(* silently excluded: no record is appended, no unsupported-topology       *)
(* warning is logged for it and the scan goes on; the warning is logged    *)
(* only for a non-empty intersection of a shape the configured match type  *)
(* does not support.                                                       *)
C9_EmptyIntersectionSilent ==
    (PairScanned /\ LastPair \in intersected /\ MATCH # NoGeom) =>
        /\ MATCH.empty =>
               /\ ~warned
               /\ ATTRS = NoAttrs
               /\ pc = "pairs"
        /\ warned => (~MATCH.empty /\ Shape(MATCH) # ExpectedShape)

(* C10: per-pair outcomes never abort the batch: after a skipped pair, an  *)
(* empty or unsupported intersection or a below-threshold pair the driver  *)
(* continues, every (track A, candidate track B) pair is visited exactly   *)
(* once in A-outer / B-inner order and the scan terminates; each visited   *)
(* pair appends zero or one record, so no pair occurs twice in the output  *)
(* and the records appear in scan order.                                   *)
C10_BatchNeverAborted ==
    /\ pc = "crashed" => visited = <<>>
    /\ pc \in {"pairs", "identify"} => IsSubSeq(visited, AllPairs(1, 1))
    /\ pc \in {"export", "done", "exited"} => visited = AllPairs(1, 1)
    /\ \A i, j \in 1..Len(visited) : visited[i] = visited[j] => i = j
    /\ IsSubSeq(RecordPairs, visited)
    /\ \A i, j \in 1..Len(attributes) : RecordPairs[i] = RecordPairs[j] => i = j

====
